---- MODULE Spec2Model ----
(***************************************************************************)
(* Model of scripts/build-package-json.py: the projection of package.json  *)
(* into package.dist.json (field allow-list plus "dist/" path rewriting),  *)
(* the copy of that staging file to dist/package.json, and the             *)
(* dist/cjs/package.json module-type marker.                               *)
(*                                                                         *)
(* JSON values are records [t, s, kids]: t is the Python type after        *)
(* json.load ("str", "num", "bool", "null", "dict", "list"), s the text of *)
(* a scalar, kids the ordered entries [k, val] of a dict (insertion order) *)
(* or the items of a list (k = "").  Python strings are TLA+ strings.      *)
(***************************************************************************)
EXTENDS Integers, Sequences, FiniteSets, TLC

VARIABLES
    arg,            \* argument handed to the function under test
    res,            \* value the function returned
    op,             \* which function produced res ("none" before the call)
    packageJson,    \* file <root>/package.json
    packageDistJson,\* file <root>/package.dist.json (staging file)
    distDir,        \* does directory <root>/dist exist
    distPackageJson,\* file <root>/dist/package.json
    cjsDir,         \* does directory <root>/dist/cjs exist
    cjsPackageJson, \* file <root>/dist/cjs/package.json
    pc,             \* next call of the __main__ block, or "exit"
    exitCode,       \* process exit status (-1 while running)
    out             \* lines printed to stdout/stderr, in order

fs == <<packageJson, packageDistJson, distDir, distPackageJson, cjsDir, cjsPackageJson>>
proc == <<pc, exitCode, out>>
call == <<arg, res, op>>
vars == <<arg, res, op, packageJson, packageDistJson, distDir, distPackageJson,
          cjsDir, cjsPackageJson, pc, exitCode, out>>

(***************************************************************************)
(* JSON values                                                             *)
(***************************************************************************)
Str(s) == [t |-> "str", s |-> s, kids |-> <<>>]
Num(s) == [t |-> "num", s |-> s, kids |-> <<>>]
Bool(s) == [t |-> "bool", s |-> s, kids |-> <<>>]
Null == [t |-> "null", s |-> "", kids |-> <<>>]
Entry(k, v) == [k |-> k, val |-> v]
Dict(entries) == [t |-> "dict", s |-> "", kids |-> entries]
List(items) == [t |-> "list", s |-> "", kids |-> [i \in 1..Len(items) |-> Entry("", items[i])]]

IsStr(v) == v.t = "str"
IsDict(v) == v.t = "dict"
IsList(v) == v.t = "list"

Keys(d) == {d.kids[i].k : i \in 1..Len(d.kids)}
\* d[k] of a dict that has the key k
Get(d, k) == d.kids[CHOOSE i \in 1..Len(d.kids) : d.kids[i].k = k].val

\* str.startswith(prefix)
StartsWith(s, prefix) ==
    /\ Len(s) >= Len(prefix)
    /\ SubSeq(s, 1, Len(prefix)) = prefix

\* s[n:] for 0 <= n <= len(s)
SliceFrom(s, n) == SubSeq(s, n + 1, Len(s))

(***************************************************************************)
(* strip_dist_prefix                                                       *)
(***************************************************************************)
strip_dist_prefix_dot_only(path_str) ==
    IF IsStr(path_str)
    THEN IF StartsWith(path_str.s, "./dist/")
         THEN Str(SliceFrom(path_str.s, Len("./")))
         ELSE IF StartsWith(path_str.s, "dist/")
         THEN Str(SliceFrom(path_str.s, Len("dist/")))
         ELSE path_str
    ELSE path_str

strip_dist_prefix_bare_only(path_str) ==
    IF IsStr(path_str) /\ StartsWith(path_str.s, "dist/")
    THEN Str(SliceFrom(path_str.s, Len("dist/")))
    ELSE path_str

strip_dist_prefix(path_str) ==
    IF IsStr(path_str)
    THEN IF StartsWith(path_str.s, "./dist/")
         THEN Str("./" \o SliceFrom(path_str.s, Len("./dist/")))
         ELSE IF StartsWith(path_str.s, "dist/")
         THEN Str(SliceFrom(path_str.s, Len("dist/")))
         ELSE path_str
    ELSE path_str

(***************************************************************************)
(* transform_exports, transform_dist_paths                                 *)
(***************************************************************************)
RECURSIVE transform_exports(_)
transform_exports(obj) ==
    IF IsStr(obj) THEN strip_dist_prefix(obj)
    ELSE IF IsDict(obj)
    THEN [obj EXCEPT !.kids = [i \in 1..Len(obj.kids) |->
              Entry(obj.kids[i].k, transform_exports(obj.kids[i].val))]]
    ELSE obj

PathFields == {"main", "module", "types", "style"}

\* The three rewrites of transform_dist_paths touch disjoint keys and each
\* assigns to a key that is already present, so the dict keeps its order and
\* the rewrites are one pass over its entries.
transform_dist_paths(package_data) ==
    [package_data EXCEPT !.kids = [i \in 1..Len(package_data.kids) |->
        LET k == package_data.kids[i].k
            v == package_data.kids[i].val
        IN  IF k \in PathFields THEN Entry(k, strip_dist_prefix(v))
            ELSE IF k = "exports" THEN Entry(k, transform_exports(v))
            ELSE IF k = "sideEffects" /\ IsList(v)
            THEN Entry(k, [v EXCEPT !.kids = [j \in 1..Len(v.kids) |->
                               Entry("", strip_dist_prefix(v.kids[j].val))]])
            ELSE Entry(k, v)]]

(***************************************************************************)
(* build_package_dist_json: field selection and projection                 *)
(***************************************************************************)
dist_fields == <<"name", "version", "description", "main", "module", "types",
                 "style", "exports", "type", "keywords", "author", "license",
                 "peerDependencies", "dependencies", "sideEffects">>

\* sub in s, for Python strings
Contains(s, sub) ==
    \E i \in 1..(Len(s) - Len(sub) + 1) : SubSeq(s, i, i + Len(sub) - 1) = sub

\* "field in package_data" raises TypeError on a number, a boolean or None
InRaises(package_data) == package_data.t \in {"num", "bool", "null"}

\* "field in package_data" where it does not raise: key of a dict, item of a
\* list, substring of a string
FieldIn(field, package_data) ==
    IF IsDict(package_data) THEN field \in Keys(package_data)
    ELSE IF IsList(package_data)
    THEN \E i \in 1..Len(package_data.kids) : package_data.kids[i].val = Str(field)
    ELSE Contains(package_data.s, field)

\* Does the selection loop raise: the membership test fails, or
\* package_data[field] indexes a list or a string with a string
SelectRaises(package_data) ==
    \/ InRaises(package_data)
    \/ /\ ~IsDict(package_data)
       /\ \E i \in 1..Len(dist_fields) : FieldIn(dist_fields[i], package_data)

select_all_fields(package_data) ==
    IF IsDict(package_data) THEN package_data ELSE Dict(<<>>)

\* package_dist_data after the selection loop (when it does not raise)
select_dist_fields(package_data) ==
    LET present == SelectSeq(dist_fields, LAMBDA f : FieldIn(f, package_data))
    IN  Dict([i \in 1..Len(present) |-> Entry(present[i], Get(package_data, present[i]))])

\* package_dist_data as written to package.dist.json
project(package_data) == transform_dist_paths(select_dist_fields(package_data))

(***************************************************************************)
(* Files                                                                   *)
(***************************************************************************)
Absent == [st |-> "absent", doc |-> Null]
Json(doc) == [st |-> "json", doc |-> doc]
\* a file whose bytes are not a JSON document (json.load raises JSONDecodeError),
\* which is also what an interrupted write leaves behind
Malformed == [st |-> "malformed", doc |-> Null]
\* a path that exists but cannot be opened for reading
Unreadable == [st |-> "unreadable", doc |-> Null]

(***************************************************************************)
(* Inputs of the function-level specifications                             *)
(***************************************************************************)
MaxPieces == 3
MaxNodes == 4
MaxKeys == 2

Frags == {"./", "dist/", "dist", "x", "/a", "cjs/index.js", "esm/index.js"}

\* concatenations of at most n fragments
RECURSIVE PathStrings(_)
PathStrings(n) ==
    IF n = 0 THEN {""}
    ELSE LET shorter == PathStrings(n - 1)
         IN  shorter \cup {s \o f : s \in shorter, f \in Frags}

NonStrings == {Num("1"), Bool("true"), Null, Dict(<<>>), List(<<Str("dist/a")>>)}

StripArgs == {Str(s) : s \in PathStrings(MaxPieces)} \cup NonStrings

ExportsLeaves ==
    {Str("./dist/index.mjs"), Str("dist/index.cjs"), Str("./index.js"),
     Bool("true"), Null, Num("1"), List(<<Str("./dist/a.js")>>)}
ExportsKeys == {".", "import", "require"}
ExportsKeyPairs == {q \in ExportsKeys \X ExportsKeys : q[1] # q[2]}

\* exports values with exactly n nodes: a leaf, a dict of one entry, or a dict
\* of two entries whose first value has at least a nodes
RECURSIVE ExportsOfSize(_), ExportsPairs(_, _)
ExportsPairs(n, a) ==
    IF a > n - 2 THEN {}
    ELSE {Dict(<<Entry(kk[1], v1), Entry(kk[2], v2)>>) :
              kk \in ExportsKeyPairs,
              v1 \in ExportsOfSize(a), v2 \in ExportsOfSize(n - 1 - a)}
         \cup ExportsPairs(n, a + 1)

ExportsOfSize(n) ==
    IF n = 1 THEN ExportsLeaves
    ELSE {Dict(<<Entry(k, v)>>) : k \in ExportsKeys, v \in ExportsOfSize(n - 1)}
         \cup ExportsPairs(n, 1)

RECURSIVE ExportsUpTo(_)
ExportsUpTo(n) == IF n = 0 THEN {} ELSE ExportsUpTo(n - 1) \cup ExportsOfSize(n)

ManifestKeys == {"name", "main", "style", "exports", "sideEffects", "scripts"}
ManifestValues ==
    {Str("dist/cjs/index.js"), Str("./dist/esm/index.js"), Str("lib/index.js"),
     Str("dist/dist/a.js"),
     List(<<Str("dist/a.css"), Bool("false")>>),
     Dict(<<Entry(".", Dict(<<Entry("import", Str("./dist/index.mjs")),
                              Entry("require", Str("dist/index.cjs"))>>))>>),
     Null}

\* dicts of at most n entries over the keys ks and the values vs, with distinct
\* keys, in every insertion order
RECURSIVE DictsUpTo(_, _, _)
DictsUpTo(n, ks, vs) ==
    IF n = 0 THEN {Dict(<<>>)}
    ELSE LET smaller == DictsUpTo(n - 1, ks, vs)
         IN  smaller \cup
             {Dict(Append(u[1].kids, Entry(u[2], u[3]))) :
                  u \in {w \in smaller \X ks \X vs : w[2] \notin Keys(w[1])}}

(***************************************************************************)
(* Function-level specifications: one call, or a call on its own result    *)
(***************************************************************************)
Idle ==
    /\ packageJson = Absent
    /\ packageDistJson = Absent
    /\ distDir = FALSE
    /\ distPackageJson = Absent
    /\ cjsDir = FALSE
    /\ cjsPackageJson = Absent
    /\ pc = "idle"
    /\ exitCode = -1
    /\ out = <<>>

InitPaths ==
    /\ arg \in StripArgs \cup DictsUpTo(MaxKeys, ManifestKeys, ManifestValues)
    /\ res = Null
    /\ op = "none"
    /\ Idle

InitExports ==
    /\ arg \in ExportsUpTo(MaxNodes)
    /\ res = Null
    /\ op = "none"
    /\ Idle

CallStrip ==
    /\ op = "none"
    /\ ~IsDict(arg) \/ arg.kids = <<>>
    /\ res' = strip_dist_prefix(arg)
    /\ op' = "strip_dist_prefix"
    /\ UNCHANGED <<arg, fs, proc>>

CallStripAgain ==
    /\ op = "strip_dist_prefix"
    /\ res' = strip_dist_prefix(res)
    /\ op' = "strip_dist_prefix again"
    /\ UNCHANGED <<arg, fs, proc>>

CallProject ==
    /\ op = "none"
    /\ IsDict(arg)
    /\ res' = project(arg)
    /\ op' = "project"
    /\ UNCHANGED <<arg, fs, proc>>

CallProjectAgain ==
    /\ op = "project"
    /\ res' = project(res)
    /\ op' = "project again"
    /\ UNCHANGED <<arg, fs, proc>>

CallTransformExports ==
    /\ op = "none"
    /\ res' = transform_exports(arg)
    /\ op' = "transform_exports"
    /\ UNCHANGED <<arg, fs, proc>>

NextPaths == CallStrip \/ CallStripAgain \/ CallProject \/ CallProjectAgain
SpecPaths == InitPaths /\ [][NextPaths]_vars

NextExports == CallTransformExports
SpecExports == InitExports /\ [][NextExports]_vars

(***************************************************************************)
(* The pipeline of the __main__ block                                      *)
(***************************************************************************)
MaxSourceKeys == 1

SourceKeys == {"name", "main", "dependencies", "peerDependencies", "scripts"}
SourceValues ==
    {Str("dist/cjs/index.js"), Dict(<<Entry("react", Str("^18.0.0"))>>),
     List(<<Str("dist/a.css")>>), Null}

\* what json.load can return: a dict, or any other JSON document
NonDictDocs == {Num("1"), Null, List(<<>>), List(<<Str("name")>>), Str("x"), Str("my name")}

StaleManifest == Dict(<<Entry("name", Str("old"))>>)
StaleMarker == Dict(<<Entry("type", Str("module"))>>)

InitPipeline ==
    /\ arg = Null /\ res = Null /\ op = "none"
    /\ packageJson \in {Absent, Malformed, Unreadable}
                       \cup {Json(d) : d \in DictsUpTo(MaxSourceKeys, SourceKeys, SourceValues)}
                       \cup {Json(d) : d \in NonDictDocs}
    /\ packageDistJson \in {Absent, Json(StaleManifest)}
    /\ distDir \in BOOLEAN
    /\ distPackageJson \in (IF distDir THEN {Absent, Json(StaleManifest)} ELSE {Absent})
    /\ cjsDir \in (IF distDir THEN BOOLEAN ELSE {FALSE})
    /\ cjsPackageJson \in (IF cjsDir THEN {Absent, Json(StaleMarker)} ELSE {Absent})
    /\ pc = "build_package_dist_json"
    /\ exitCode = -1
    /\ out = <<>>

Has(line) == \E i \in 1..Len(out) : out[i] = line

\* print(...) of each line, then sys.exit(1)
Fail(lines) ==
    /\ out' = out \o lines
    /\ pc' = "exit"
    /\ exitCode' = 1

\* an exception no handler catches: the interpreter prints the traceback and
\* the process ends with status 1
Uncaught(lines) ==
    /\ out' = out \o lines \o <<"Traceback (most recent call last):">>
    /\ pc' = "exit"
    /\ exitCode' = 1

\* the call that follows f in the __main__ block; the process ends with
\* status 0 after the last one
NextCall_marker_first(f) ==
    CASE f = "build_package_dist_json" -> "create_cjs_package_json"
      [] f = "create_cjs_package_json" -> "copy_package_to_dist"
      [] f = "copy_package_to_dist" -> "exit"

NextCall(f) ==
    CASE f = "build_package_dist_json" -> "copy_package_to_dist"
      [] f = "copy_package_to_dist" -> "create_cjs_package_json"
      [] f = "create_cjs_package_json" -> "exit"

Return(f, lines) ==
    /\ out' = out \o lines
    /\ pc' = NextCall(f)
    /\ exitCode' = IF NextCall(f) = "exit" THEN 0 ELSE exitCode

\* The existence check and the read of package.json: the error line printed
\* before sys.exit(1), or "" and the parsed document
ReadPackageJson_missing_is_empty ==
    IF packageJson.st = "absent" THEN [err |-> "", data |-> Dict(<<>>)]
    ELSE IF packageJson.st = "malformed"
    THEN [err |-> "Error: Failed to parse package.json", data |-> Null]
    ELSE IF packageJson.st = "unreadable"
    THEN [err |-> "Error: Failed to read package.json", data |-> Null]
    ELSE [err |-> "", data |-> packageJson.doc]

ReadPackageJson ==
    IF packageJson.st = "absent"
    THEN [err |-> "Error: package.json not found", data |-> Null]
    ELSE IF packageJson.st = "malformed"
    THEN [err |-> "Error: Failed to parse package.json", data |-> Null]
    ELSE IF packageJson.st = "unreadable"
    THEN [err |-> "Error: Failed to read package.json", data |-> Null]
    ELSE [err |-> "", data |-> packageJson.doc]

\* str(version) in the report lines
Repr(v) ==
    IF v.t \in {"str", "num"} THEN v.s
    ELSE IF v.t = "bool" THEN (IF v.s = "true" THEN "True" ELSE "False")
    ELSE IF v.t = "null" THEN "None"
    ELSE IF v.t = "dict" THEN "{...}"
    ELSE "[...]"

\* the lines of "for dep, version in d.items(): print(...)"
ItemLines(d) == [i \in 1..Len(d.kids) |-> "    " \o d.kids[i].k \o ": " \o Repr(d.kids[i].val)]

\* The report after the staging file is written: the lines printed, and
\* whether .items() raised AttributeError on a value that is not a dict
Report(package_dist_data) ==
    LET hasDeps == "dependencies" \in Keys(package_dist_data)
        hasPeer == "peerDependencies" \in Keys(package_dist_data)
        deps == Get(package_dist_data, "dependencies")
        peer == Get(package_dist_data, "peerDependencies")
        depLines == IF ~hasDeps THEN <<>>
                    ELSE <<"  Dependencies version synchronized:">>
                         \o (IF IsDict(deps) THEN ItemLines(deps) ELSE <<>>)
        depRaised == hasDeps /\ ~IsDict(deps)
        peerLines == IF depRaised \/ ~hasPeer THEN <<>>
                     ELSE <<"  Peer dependencies version synchronized:">>
                          \o (IF IsDict(peer) THEN ItemLines(peer) ELSE <<>>)
        peerRaised == ~depRaised /\ hasPeer /\ ~IsDict(peer)
    IN  [lines |-> depLines \o peerLines, raised |-> depRaised \/ peerRaised]

build_package_dist_json ==
    /\ pc = "build_package_dist_json"
    /\ LET banner == <<"Building package.dist.json from package.json...">>
           read == ReadPackageJson
       IN  IF read.err # ""
           THEN Fail(banner \o <<read.err>>) /\ UNCHANGED fs
           ELSE IF SelectRaises(read.data)
           THEN Uncaught(banner) /\ UNCHANGED fs
           ELSE LET package_dist_data == project(read.data)
                    report == Report(package_dist_data)
                    created == <<"Successfully created package.dist.json">>
                IN  \/ /\ packageDistJson' = Json(package_dist_data)
                       /\ IF report.raised
                          THEN Uncaught(banner \o created \o report.lines)
                          ELSE Return("build_package_dist_json",
                                      banner \o created \o report.lines)
                    \/ /\ packageDistJson' \in {packageDistJson, Malformed}
                       /\ Fail(banner \o <<"Error: Failed to write package.dist.json">>)
    /\ UNCHANGED <<packageJson, distDir, distPackageJson, cjsDir, cjsPackageJson, call>>

\* shutil.copy2 and the unlink that follows it, once both preconditions hold
CopyAndDelete_delete_fatal(banner) ==
    \/ /\ distPackageJson' = packageDistJson
       /\ \/ /\ packageDistJson' = Absent
             /\ Return("copy_package_to_dist",
                       banner \o <<"Successfully copied to dist/package.json",
                                   "Deleted temporary file package.dist.json">>)
          \/ /\ packageDistJson' = packageDistJson
             /\ Fail(banner \o <<"Successfully copied to dist/package.json",
                                 "Warning: Failed to delete package.dist.json">>)
    \/ /\ distPackageJson' \in {distPackageJson, Malformed, packageDistJson}
       /\ packageDistJson' = packageDistJson
       /\ Fail(banner \o <<"Error: Failed to copy package.dist.json">>)

CopyAndDelete(banner) ==
    \/ /\ distPackageJson' = packageDistJson
       /\ \/ /\ packageDistJson' = Absent
             /\ Return("copy_package_to_dist",
                       banner \o <<"Successfully copied to dist/package.json",
                                   "Deleted temporary file package.dist.json">>)
          \/ /\ packageDistJson' = packageDistJson
             /\ Return("copy_package_to_dist",
                       banner \o <<"Successfully copied to dist/package.json",
                                   "Warning: Failed to delete package.dist.json">>)
    \/ /\ distPackageJson' \in {distPackageJson, Malformed, packageDistJson}
       /\ packageDistJson' = packageDistJson
       /\ Fail(banner \o <<"Error: Failed to copy package.dist.json">>)

copy_package_to_dist_mkdir ==
    /\ pc = "copy_package_to_dist"
    /\ LET banner == <<"Copying package.dist.json to dist/package.json...">>
       IN  IF packageDistJson.st = "absent"
           THEN /\ Fail(banner \o <<"Error: package.dist.json not found",
                                 "  Please run build_package_dist_json() first">>)
                /\ UNCHANGED fs
           ELSE /\ distDir' = TRUE
                /\ CopyAndDelete(banner)
    /\ UNCHANGED <<packageJson, cjsDir, cjsPackageJson, call>>

copy_package_to_dist ==
    /\ pc = "copy_package_to_dist"
    /\ LET banner == <<"Copying package.dist.json to dist/package.json...">>
       IN  IF packageDistJson.st = "absent"
           THEN /\ Fail(banner \o <<"Error: package.dist.json not found",
                                 "  Please run build_package_dist_json() first">>)
                /\ UNCHANGED fs
           ELSE IF ~distDir
           THEN /\ Fail(banner \o <<"Error: dist directory not found",
                                 "  Please run the build process first to create dist/">>)
                /\ UNCHANGED fs
           ELSE /\ CopyAndDelete(banner)
                /\ UNCHANGED distDir
    /\ UNCHANGED <<packageJson, cjsDir, cjsPackageJson, call>>

cjs_package_data_module == Dict(<<Entry("type", Str("module"))>>)

cjs_package_data == Dict(<<Entry("type", Str("commonjs"))>>)

create_cjs_package_json ==
    /\ pc = "create_cjs_package_json"
    /\ LET banner == <<"Creating package.json in dist/cjs...">>
       IN  IF ~cjsDir
           THEN /\ Fail(banner \o <<"Error: dist/cjs directory not found",
                                 "  Please run the build process first to create dist/cjs/">>)
                /\ UNCHANGED cjsPackageJson
           ELSE \/ /\ cjsPackageJson' = Json(cjs_package_data)
                   /\ Return("create_cjs_package_json",
                             banner \o <<"Successfully created dist/cjs/package.json">>)
                \/ /\ cjsPackageJson' \in {cjsPackageJson, Malformed}
                   /\ Fail(banner \o <<"Error: Failed to create dist/cjs/package.json">>)
    /\ UNCHANGED <<packageJson, packageDistJson, distDir, distPackageJson, cjsDir, call>>

NextPipeline == build_package_dist_json \/ copy_package_to_dist \/ create_cjs_package_json
Spec == InitPipeline /\ [][NextPipeline]_vars

(***************************************************************************)
(* Properties of the path rewrite and of the projection                    *)
(***************************************************************************)
\* The paths on which a second rewrite still finds a prefix to remove
RepeatedPrefix(s) ==
    \/ StartsWith(s, "dist/dist/")
    \/ StartsWith(s, "dist/./dist/")
    \/ StartsWith(s, "./dist/dist/")

RECURSIVE HasRepeatedPrefix(_)
HasRepeatedPrefix(v) ==
    IF IsStr(v) THEN RepeatedPrefix(v.s)
    ELSE \E i \in 1..Len(v.kids) : HasRepeatedPrefix(v.kids[i].val)

RewrittenFields == {"main", "module", "types", "style", "exports", "sideEffects"}

\* C1 as stated: rewriting an already-rewritten path is a no-op, for every
\* path, and projecting a projection changes none of its values.
C1_Idempotent ==
    /\ op = "strip_dist_prefix again" => res = strip_dist_prefix(arg)
    /\ op = "project again" => res = project(arg)

\* C1 (amended): rewriting an already-rewritten path is a no-op exactly for the
\* paths that do not begin with a repeated prefix ("dist/dist/", "dist/./dist/",
\* "./dist/dist/"), and for every non-string; projecting a projection changes
\* nothing when no value of a rewritten field of the source holds such a path.
C1_IdempotentUnlessRepeated ==
    /\ op = "strip_dist_prefix again" =>
           (res = strip_dist_prefix(arg) <=> ~(IsStr(arg) /\ RepeatedPrefix(arg.s)))
    /\ (/\ op = "project again"
        /\ \A i \in 1..Len(arg.kids) :
               arg.kids[i].k \in RewrittenFields => ~HasRepeatedPrefix(arg.kids[i].val))
       => res = project(arg)

C1_Witness ==
    /\ op = "strip_dist_prefix again"
    /\ arg = Str("./dist/esm/index.js")
    /\ res = Str("./esm/index.js")

\* r is what the rewrite rule makes of v, stated by what must be put back in
\* front of r to get v
PathRule(v, r) ==
    IF v.t = "str" /\ StartsWith(v.s, "./dist/")
    THEN r.t = "str" /\ r.kids = <<>> /\ StartsWith(r.s, "./")
         /\ v.s = "./dist/" \o SliceFrom(r.s, Len("./"))
    ELSE IF v.t = "str" /\ StartsWith(v.s, "dist/")
    THEN r.t = "str" /\ r.kids = <<>> /\ v.s = "dist/" \o r.s
    ELSE r = v

\* C2: a string starting with "./dist/" becomes "./" plus the remainder, else a
\* string starting with "dist/" becomes the remainder, else the value (string
\* or not) is returned unchanged; one prefix is removed per application; the
\* projection applies this rule to main, module, types and style.
C2_PathRule ==
    /\ op = "strip_dist_prefix" => PathRule(arg, res)
    /\ op = "strip_dist_prefix" /\ arg = Str("dist/cjs/index.js") => res = Str("cjs/index.js")
    /\ op = "strip_dist_prefix" /\ arg = Str("./dist/esm/index.js") => res = Str("./esm/index.js")
    /\ op = "strip_dist_prefix" /\ arg \in {Str("dist"), Str("./dist"), Str("distx/a")} => res = arg
    /\ op = "project" =>
           \A k \in {"main", "module", "types", "style"} :
               k \in Keys(arg) => k \in Keys(res) /\ PathRule(Get(arg, k), Get(res, k))

C2_Witness ==
    /\ op = "project"
    /\ "main" \in Keys(arg) /\ Get(arg, "main") = Str("./dist/esm/index.js")
    /\ "style" \in Keys(arg) /\ Get(arg, "style") = Null

AllowList == {"name", "version", "description", "main", "module", "types", "style",
              "exports", "type", "keywords", "author", "license", "peerDependencies",
              "dependencies", "sideEffects"}

\* C3: the keys of the projection are exactly the allow-listed keys of the
\* source, each once.
C3_KeySet ==
    op = "project" =>
        /\ Keys(res) = Keys(arg) \cap AllowList
        /\ Len(res.kids) = Cardinality(Keys(res))

C3_Witness ==
    /\ op = "project"
    /\ Keys(arg) = {"name", "scripts"}
    /\ Keys(res) = {"name"}

\* dst is src with every string in it rewritten by the rule, and the same
\* keys, key order and nesting
RECURSIVE ExportsRewritten(_, _)
ExportsRewritten(src, dst) ==
    IF src.t = "str" THEN PathRule(src, dst)
    ELSE IF src.t \in {"dict", "list"}
    THEN /\ dst.t = src.t
         /\ Len(dst.kids) = Len(src.kids)
         /\ \A i \in 1..Len(src.kids) :
                /\ dst.kids[i].k = src.kids[i].k
                /\ ExportsRewritten(src.kids[i].val, dst.kids[i].val)
    ELSE dst = src

\* C4: the projected exports has the keys, key order and nesting of the source
\* exports, every string in it is the rule applied to the source's string, and
\* booleans, nulls and numbers are unchanged.
C4_ExportsRewritten ==
    op = "transform_exports" => ExportsRewritten(arg, res)

(***************************************************************************)
(* Properties of the pipeline                                              *)
(***************************************************************************)
\* build_package_dist_json returned: it printed its success line and the
\* report after it did not raise
ProjectorSucceeded ==
    /\ Has("Successfully created package.dist.json")
    /\ ~Has("Traceback (most recent call last):")
CopySucceeded == Has("Successfully copied to dist/package.json")
MarkerSucceeded == Has("Successfully created dist/cjs/package.json")

\* C5: projector, then copier, then marker writer, stopping at the first fatal
\* error: dist/package.json changes only after the projector succeeded,
\* dist/cjs/package.json only after the copy succeeded, and the exit code is 0
\* exactly when the three steps succeeded and 1 otherwise.
C5_Pipeline ==
    /\ [](pc = "exit" =>
            /\ exitCode \in {0, 1}
            /\ exitCode = 0 <=> (ProjectorSucceeded /\ CopySucceeded /\ MarkerSucceeded))
    /\ [](pc # "exit" => exitCode = -1)
    /\ [](CopySucceeded => ProjectorSucceeded)
    /\ [](MarkerSucceeded => CopySucceeded)
    /\ [][distPackageJson' # distPackageJson => ProjectorSucceeded]_vars
    /\ [][cjsPackageJson' # cjsPackageJson => CopySucceeded]_vars

C5_Witness ==
    /\ pc = "exit"
    /\ exitCode = 0
    /\ packageJson = Json(Dict(<<Entry("main", Str("dist/cjs/index.js"))>>))
    /\ distPackageJson = Json(Dict(<<Entry("main", Str("cjs/index.js"))>>))
    /\ cjsPackageJson.st = "json"

\* C6: with package.json absent the run ends with exit code 1 in its first
\* step and no file or directory is created, changed or removed.
C6_MissingInput ==
    [][packageJson.st = "absent" => (pc' = "exit" /\ exitCode' = 1 /\ UNCHANGED fs)]_vars

C6_Witness ==
    /\ packageJson.st = "absent"
    /\ packageDistJson = Json(StaleManifest)
    /\ distDir /\ cjsDir
    /\ pc = "exit"
    /\ exitCode = 1

DeleteLines == {"Deleted temporary file package.dist.json",
                "Warning: Failed to delete package.dist.json"}

\* C8: after a failed delete the copier has returned with dist/package.json in
\* place, the marker writer runs and alone decides the exit code; the delete
\* is attempted only right after a successful copy, never after a failed one.
C8_DeleteFailure ==
    /\ [](Has("Warning: Failed to delete package.dist.json") =>
            /\ distPackageJson = packageDistJson
            /\ distPackageJson.st = "json"
            /\ pc \in {"create_cjs_package_json", "exit"}
            /\ pc = "exit" =>
                  /\ Has("Creating package.json in dist/cjs...")
                  /\ exitCode = 0 <=> MarkerSucceeded)
    /\ [](\A i \in 1..Len(out) :
            out[i] \in DeleteLines =>
                i > 1 /\ out[i - 1] = "Successfully copied to dist/package.json")
    /\ [](Has("Error: Failed to copy package.dist.json") =>
            /\ \A i \in 1..Len(out) : out[i] \notin DeleteLines
            /\ packageDistJson.st = "json")
    /\ [][packageDistJson' = Absent /\ packageDistJson # Absent =>
              distPackageJson' = packageDistJson]_vars

C8_Witness ==
    /\ Has("Warning: Failed to delete package.dist.json")
    /\ pc = "exit"
    /\ exitCode = 0
    /\ packageDistJson.st = "json"
    /\ cjsPackageJson = Json(Dict(<<Entry("type", Str("commonjs"))>>))

\* C9: at the end of a run with exit code 0 whose delete succeeded, the
\* staging file is gone, dist/package.json is the projection of package.json
\* (the content the copier found in the staging file), the marker is exactly
\* {"type": "commonjs"}, and package.json was never written.
C9_FinalState ==
    /\ []((pc = "exit" /\ exitCode = 0 /\ Has("Deleted temporary file package.dist.json")) =>
            /\ packageDistJson = Absent
            /\ distPackageJson = Json(project(packageJson.doc))
            /\ cjsPackageJson = Json(Dict(<<Entry("type", Str("commonjs"))>>)))
    /\ [][pc = "copy_package_to_dist" /\ pc' = "create_cjs_package_json" =>
              distPackageJson' = packageDistJson]_vars
    /\ [][packageJson' = packageJson]_vars

C9_Witness ==
    /\ pc = "exit"
    /\ exitCode = 0
    /\ Has("Deleted temporary file package.dist.json")
    /\ packageJson = Json(Dict(<<Entry("main", Str("dist/cjs/index.js"))>>))
    /\ distPackageJson = Json(Dict(<<Entry("main", Str("cjs/index.js"))>>))
    /\ packageDistJson = Absent

\* C10: for a package.json that parses to a dict, once the staging file is
\* written the projector returns and the copier runs: the run never ends in
\* the projector for a reason other than a failed write.
C10_ProjectorTerminals ==
    (/\ packageJson.st = "json"
     /\ IsDict(packageJson.doc)
     /\ pc # "build_package_dist_json"
     /\ ~Has("Error: Failed to write package.dist.json"))
    => /\ ProjectorSucceeded
       /\ pc = "exit" => Has("Copying package.dist.json to dist/package.json...")

====
